---- MODULE Spec2Model ----
(***************************************************************************)
(* Rule normalisation engine of .github/scripts/process_rules.py.          *)
(*                                                                         *)
(* A text (a file's content, a line, a rule value) is a sequence of        *)
(* one-character strings, so that the regular expressions, the header      *)
(* stripping, the label splitting and the lexical sort of the code are     *)
(* computed on characters.  A rule kind is one of the five strings of      *)
(* TYPE_ORDER; KindText gives its characters.                              *)
(***************************************************************************)
EXTENDS Integers, Sequences, FiniteSets, TLC

(***************************************************************************)
(* Characters                                                              *)
(***************************************************************************)

\* The printable ASCII characters in code point order, 32 (space) to 126,
\* without the grave accent (96), which no text of the model holds.
Printable ==
  << " ", "!", "\"", "#", "$", "%", "&", "'", "(", ")", "*", "+", ",", "-", ".", "/",
     "0", "1", "2", "3", "4", "5", "6", "7", "8", "9", ":", ";", "<", "=", ">", "?",
     "@", "A", "B", "C", "D", "E", "F", "G", "H", "I", "J", "K", "L", "M", "N", "O",
     "P", "Q", "R", "S", "T", "U", "V", "W", "X", "Y", "Z", "[", "\\", "]", "^", "_",
     "a", "b", "c", "d", "e", "f", "g", "h", "i", "j", "k", "l", "m", "n", "o",
     "p", "q", "r", "s", "t", "u", "v", "w", "x", "y", "z", "{", "|", "}", "~" >>

Chars == {Printable[i] : i \in DOMAIN Printable} \cup {"\n", "\t"}

\* ord(c): the code point of a character.
Ord ==
  [c \in Chars |->
     IF c = "\t" THEN 9
     ELSE IF c = "\n" THEN 10
     ELSE LET i == CHOOSE k \in DOMAIN Printable : Printable[k] = c
          IN  IF i <= 64 THEN 31 + i ELSE 32 + i]

Digits == {"0", "1", "2", "3", "4", "5", "6", "7", "8", "9"}
UpperLetters == {Printable[i] : i \in 34..59}
LowerLetters == {Printable[i] : i \in 65..90}
Letters == UpperLetters \cup LowerLetters
HexDigits == Digits \cup {"a", "b", "c", "d", "e", "f", "A", "B", "C", "D", "E", "F"}

\* The whitespace of str.strip() and of \s, within Chars.
WS == {" ", "\t", "\n"}

\* Position of a character in Printable; a letter's other case is 31 places away.
CharIndex == [c \in Chars \ {"\n", "\t"} |-> CHOOSE k \in DOMAIN Printable : Printable[k] = c]
LowerChar ==
  [c \in Chars |-> IF c \in UpperLetters THEN Printable[CharIndex[c] + 31] ELSE c]
UpperChar ==
  [c \in Chars |-> IF c \in LowerLetters THEN Printable[CharIndex[c] - 31] ELSE c]

(***************************************************************************)
(* str methods                                                             *)
(***************************************************************************)

Min(S) == CHOOSE x \in S : \A y \in S : x <= y
Max(S) == CHOOSE x \in S : \A y \in S : y <= x

\* s[from:] with a 1-based first index.
Drop(s, from) == SubSeq(s, from, Len(s))

\* str.lower(), str.upper()
Lower(s) == [i \in 1..Len(s) |-> LowerChar[s[i]]]
Upper(s) == [i \in 1..Len(s) |-> UpperChar[s[i]]]

\* str.title(): a letter is upper-cased after a non-letter, lower-cased after a letter.
Title(s) ==
  [i \in 1..Len(s) |->
     IF i = 1 \/ s[i - 1] \notin Letters THEN UpperChar[s[i]] ELSE LowerChar[s[i]]]

\* str.startswith(p)
StartsWith(s, p) == Len(s) >= Len(p) /\ SubSeq(s, 1, Len(p)) = p

\* str.strip(): without the leading and trailing whitespace.
Strip(s) ==
  LET I == {i \in 1..Len(s) : s[i] \notin WS}
  IN  IF I = {} THEN << >> ELSE SubSeq(s, Min(I), Max(I))

\* str.lstrip('\n')
LStripNewlines(s) ==
  LET I == {i \in 1..Len(s) : s[i] # "\n"}
  IN  IF I = {} THEN << >> ELSE Drop(s, Min(I))

\* str.split(c): the parts between the occurrences of c (never empty as a list).
Split(s, c) ==
  LET P      == {i \in 1..Len(s) : s[i] = c}
      n      == Cardinality(P)
      Pos(k) == CHOOSE p \in P : Cardinality({q \in P : q < p}) = k - 1
      From(k) == IF k = 1 THEN 1 ELSE Pos(k - 1) + 1
      To(k)   == IF k = n + 1 THEN Len(s) ELSE Pos(k) - 1
  IN  [k \in 1..(n + 1) |-> SubSeq(s, From(k), To(k))]

\* str.splitlines() for texts whose only line terminator is "\n".
SplitLines(s) ==
  LET parts == Split(s, "\n")
  IN  IF parts[Len(parts)] = << >> THEN SubSeq(parts, 1, Len(parts) - 1) ELSE parts

\* "\n".join(lines)
RECURSIVE JoinLines(_)
JoinLines(lines) ==
  IF lines = << >> THEN << >>
  ELSE IF Len(lines) = 1 THEN lines[1]
  ELSE lines[1] \o <<"\n">> \o JoinLines(Tail(lines))

\* a < b for str: code point order, a proper prefix first.
StrLess(a, b) ==
  \E i \in 1..(Len(a) + 1) :
     /\ i <= Len(b)
     /\ \A j \in 1..(i - 1) : a[j] = b[j]
     /\ (i = Len(a) + 1 \/ Ord[a[i]] < Ord[b[i]])

\* sorted(S) for a set of str.
RECURSIVE Sorted(_)
Sorted(S) ==
  IF S = {} THEN << >>
  ELSE LET m == CHOOSE x \in S : \A y \in S \ {x} : StrLess(x, y)
       IN  <<m>> \o Sorted(S \ {m})

\* str(n) for n >= 0
RECURSIVE Dec(_)
Dec(n) ==
  IF n < 10 THEN <<Printable[17 + n]>> ELSE Dec(n \div 10) \o <<Printable[17 + (n % 10)]>>

Range(f) == {f[i] : i \in DOMAIN f}

(***************************************************************************)
(* Class constants of RuleProcessor                                        *)
(***************************************************************************)

TYPE_ORDER == <<"DOMAIN", "DOMAIN-KEYWORD", "DOMAIN-SUFFIX", "IP-CIDR", "IP-CIDR6">>

Kinds == Range(TYPE_ORDER)

\* The characters of each kind's name.
KindText ==
  [k \in Kinds |->
     CASE k = "DOMAIN"         -> <<"D", "O", "M", "A", "I", "N">>
       [] k = "DOMAIN-KEYWORD" -> <<"D", "O", "M", "A", "I", "N", "-", "K", "E", "Y", "W", "O", "R", "D">>
       [] k = "DOMAIN-SUFFIX"  -> <<"D", "O", "M", "A", "I", "N", "-", "S", "U", "F", "F", "I", "X">>
       [] k = "IP-CIDR"        -> <<"I", "P", "-", "C", "I", "D", "R">>
       [] k = "IP-CIDR6"       -> <<"I", "P", "-", "C", "I", "D", "R", "6">>]

\* JSON_MAP, in its insertion order (the order of TYPE_ORDER).
JSON_MAP ==
  [k \in Kinds |->
     CASE k = "DOMAIN"         -> "domain"
       [] k = "DOMAIN-KEYWORD" -> "domain_keyword"
       [] k = "DOMAIN-SUFFIX"  -> "domain_suffix"
       [] k = "IP-CIDR"        -> "ip_cidr"
       [] k = "IP-CIDR6"       -> "ip_cidr"]

\* The result of a regular expression that does not match, and of _parse_line
\* for a line that is no rule (None).
None == [kind |-> "None", value |-> << >>]

\* RULE_TYPE_REGEX for one kind of the alternation: the kind's name (re.I), then
\* the longest run of [,\s] that still leaves a character of [^#\s] behind it
\* (the greedy [,\s]+ backtracks over its commas), then the longest run of [^#\s].
RuleTypeMatchKind(line, k) ==
  LET name == KindText[k]
      rest == Drop(line, Len(name) + 1)
      NotSep == {i \in 1..Len(rest) : rest[i] \notin ({","} \cup WS)}
      m    == IF NotSep = {} THEN Len(rest) ELSE Min(NotSep) - 1
      J    == {j \in 1..m : j + 1 <= Len(rest) /\ rest[j + 1] \notin ({"#"} \cup WS)}
      from == Max(J) + 1
      Stop == {i \in from..Len(rest) : rest[i] \in ({"#"} \cup WS)}
      to   == IF Stop = {} THEN Len(rest) ELSE Min(Stop) - 1
  IN  IF Len(line) >= Len(name) /\ Upper(SubSeq(line, 1, Len(name))) = name /\ J # {}
      THEN [kind |-> k, value |-> SubSeq(rest, from, to)]
      ELSE None

\* RULE_TYPE_REGEX.match(line): the first alternative, in TYPE_ORDER, that matches;
\* group(1).upper() is kind, group(2) is value.
RULE_TYPE_REGEX(line) ==
  LET K == {i \in DOMAIN TYPE_ORDER : RuleTypeMatchKind(line, TYPE_ORDER[i]) # None}
  IN  IF K = {} THEN None ELSE RuleTypeMatchKind(line, TYPE_ORDER[Min(K)])

\* DOMAIN_ONLY_REGEX.match(line): ^[a-zA-Z0-9.-]+\.[a-zA-Z]{2,}$
DOMAIN_ONLY_REGEX(line) ==
  LET Dots == {i \in 1..Len(line) : line[i] = "."}
      last == Max(Dots)
  IN  /\ \A i \in 1..Len(line) : line[i] \in Letters \cup Digits \cup {".", "-"}
      /\ Dots # {}
      /\ last >= 2
      /\ Len(line) - last >= 2
      /\ \A i \in (last + 1)..Len(line) : line[i] \in Letters

IsDigits(s) == \A i \in 1..Len(s) : s[i] \in Digits

\* (?:25[0-5]|2[0-4][0-9]|[01]?[0-9][0-9]?)
IsOctet(s) ==
  /\ IsDigits(s)
  /\ \/ Len(s) \in {1, 2}
     \/ /\ Len(s) = 3
        /\ \/ s[1] \in {"0", "1"}
           \/ s[1] = "2" /\ s[2] \in {"0", "1", "2", "3", "4"}
           \/ s[1] = "2" /\ s[2] = "5" /\ s[3] \in {"0", "1", "2", "3", "4", "5"}

\* (?:3[0-2]|[12]?[0-9])
IsPrefix4(s) ==
  /\ IsDigits(s)
  /\ \/ Len(s) = 1
     \/ Len(s) = 2 /\ s[1] \in {"1", "2"}
     \/ Len(s) = 2 /\ s[1] = "3" /\ s[2] \in {"0", "1", "2"}

\* (?:12[0-8]|1[01][0-9]|[1-9]?[0-9])
IsPrefix6(s) ==
  /\ IsDigits(s)
  /\ \/ Len(s) = 1
     \/ Len(s) = 2 /\ s[1] # "0"
     \/ Len(s) = 3 /\ s[1] = "1" /\ s[2] \in {"0", "1"}
     \/ Len(s) = 3 /\ s[1] = "1" /\ s[2] = "2" /\ s[3] \in Digits \ {"9"}

\* [0-9a-fA-F]{1,4}
IsHexGroup(s) == Len(s) \in 1..4 /\ \A i \in 1..Len(s) : s[i] \in HexDigits

\* IPV4_REGEX.match(s): four octets, then an optional /prefix.
IPV4_REGEX(s) ==
  LET sl   == Split(s, "/")
      octs == Split(sl[1], ".")
  IN  /\ Len(sl) \in {1, 2}
      /\ Len(sl) = 2 => IsPrefix4(sl[2])
      /\ Len(octs) = 4
      /\ \A i \in 1..4 : IsOctet(octs[i])

\* IPV6_REGEX.match(s): eight groups, or "::" and one to seven groups, or one to
\* seven groups and "::"; then an optional /prefix.
IPV6_REGEX(s) ==
  LET sl == Split(s, "/")
      g  == Split(sl[1], ":")
      n  == Len(g)
  IN  /\ Len(sl) \in {1, 2}
      /\ Len(sl) = 2 => IsPrefix6(sl[2])
      /\ \/ n = 8 /\ \A i \in 1..8 : IsHexGroup(g[i])
         \/ /\ n \in 3..9
            /\ g[1] = << >> /\ g[2] = << >>
            /\ \A i \in 3..n : IsHexGroup(g[i])
         \/ /\ n \in 3..9
            /\ g[n - 1] = << >> /\ g[n] = << >>
            /\ \A i \in 1..(n - 2) : IsHexGroup(g[i])

\* RuleProcessor._parse_line: the (kind, value) of a line, or None.
_parse_line(raw) ==
  LET line  == Strip(raw)
      match == RULE_TYPE_REGEX(line)
  IN  IF line = << >> \/ line[1] = "#" THEN None
      ELSE IF match # None THEN
        IF match.kind \in {"DOMAIN", "DOMAIN-KEYWORD", "DOMAIN-SUFFIX"}
        THEN [kind |-> match.kind, value |-> Lower(match.value)]
        ELSE IF match.kind = "IP-CIDR" THEN
          IF IPV6_REGEX(match.value) THEN [kind |-> "IP-CIDR6", value |-> match.value]
          ELSE IF ~IPV4_REGEX(match.value) THEN None
          ELSE match
        ELSE match
      ELSE IF DOMAIN_ONLY_REGEX(line) THEN [kind |-> "DOMAIN", value |-> Lower(line)]
      ELSE IF IPV4_REGEX(line) THEN [kind |-> "IP-CIDR", value |-> line]
      ELSE IF IPV6_REGEX(line) THEN [kind |-> "IP-CIDR6", value |-> line]
      ELSE None

(***************************************************************************)
(* Header stripping                                                        *)
(***************************************************************************)

NAME_MARK == <<"#", " ", "N", "A", "M", "E", ":">>

\* HEADER_REGEX.search(content), ^# NAME:.*?(?=\n[^#]|\Z) with DOTALL and
\* MULTILINE: << >> without a match, else <<group(0)>>.  The match starts at the
\* first line start that reads "# NAME:" and ends before the first newline that
\* a character other than "#" follows, or at the end of the text.
HEADER_REGEX(content) ==
  LET n      == Len(content)
      Starts == {i \in 1..n :
                   /\ content[i] = "#"
                   /\ i = 1 \/ content[i - 1] = "\n"
                   /\ i + Len(NAME_MARK) - 1 <= n
                   /\ \A k \in 1..Len(NAME_MARK) : content[i + k - 1] = NAME_MARK[k]}
      i      == Min(Starts)
      Ends   == {e \in (i + Len(NAME_MARK))..n :
                   content[e] = "\n" /\ e + 1 <= n /\ content[e + 1] # "#"}
      e      == IF Ends = {} THEN n + 1 ELSE Min(Ends)
  IN  IF Starts = {} THEN << >> ELSE <<SubSeq(content, i, e - 1)>>

\* RuleProcessor._load_content, for a file that is read: the content without its
\* first len(group(0)) characters and the newlines after them, or the content.
_load_content(content) ==
  LET header_match == HEADER_REGEX(content)
  IN  IF header_match # << >>
      THEN LStripNewlines(Drop(content, Len(header_match[1]) + 1))
      ELSE content

(***************************************************************************)
(* Redundancy filter                                                       *)
(***************************************************************************)

\* parts[-len(tail):] == tail, for len(parts) >= len(tail) >= 1
EndsWithParts(parts, tail) ==
  SubSeq(parts, Len(parts) - Len(tail) + 1, Len(parts)) = tail

\* The key of the sort in _filter_redundant_suffixes: (len(s.split('.')), s)
SuffixKeyLess(a, b) ==
  LET la == Len(Split(a, "."))
      lb == Len(Split(b, "."))
  IN  la < lb \/ (la = lb /\ StrLess(a, b))

RECURSIVE SortedSuffixes(_)
SortedSuffixes(S) ==
  IF S = {} THEN << >>
  ELSE LET m == CHOOSE x \in S : \A y \in S \ {x} : SuffixKeyLess(x, y)
       IN  <<m>> \o SortedSuffixes(S \ {m})

\* The loop of _filter_redundant_suffixes over sorted_suffixes.
RECURSIVE FilterLoop(_, _)
FilterLoop(sorted_suffixes, filtered) ==
  IF sorted_suffixes = << >> THEN filtered
  ELSE LET suffix       == Head(sorted_suffixes)
           suffix_parts == Split(suffix, ".")
           is_redundant ==
             \E existing \in filtered :
                LET existing_parts == Split(existing, ".")
                IN  /\ Len(suffix_parts) > Len(existing_parts)
                    /\ EndsWithParts(suffix_parts, existing_parts)
       IN  FilterLoop(Tail(sorted_suffixes),
                      IF is_redundant THEN filtered ELSE filtered \cup {suffix})

\* RuleProcessor._filter_redundant_suffixes
_filter_redundant_suffixes(suffixes) ==
  IF Cardinality(suffixes) <= 1 THEN suffixes
  ELSE FilterLoop(SortedSuffixes(suffixes), {})

\* _deduplicate_domains with ">" for ">=": a DOMAIN equal to a suffix is kept.
_deduplicate_domains_strict(domains, domain_suffixes) ==
  IF domains = {} \/ domain_suffixes = {} THEN domains
  ELSE {domain \in domains :
          LET domain_parts == Split(domain, ".")
          IN  ~ \E suffix \in domain_suffixes :
                  LET suffix_parts == Split(suffix, ".")
                  IN  /\ Len(domain_parts) > Len(suffix_parts)
                      /\ EndsWithParts(domain_parts, suffix_parts)}

\* _deduplicate_domains with domain.endswith(suffix) for the comparison of labels.
_deduplicate_domains_endswith(domains, domain_suffixes) ==
  IF domains = {} \/ domain_suffixes = {} THEN domains
  ELSE {domain \in domains :
          ~ \E suffix \in domain_suffixes :
              /\ Len(domain) >= Len(suffix)
              /\ Drop(domain, Len(domain) - Len(suffix) + 1) = suffix}

\* RuleProcessor._deduplicate_domains
_deduplicate_domains(domains, domain_suffixes) ==
  IF domains = {} \/ domain_suffixes = {} THEN domains
  ELSE {domain \in domains :
          LET domain_parts == Split(domain, ".")
          IN  ~ \E suffix \in domain_suffixes :
                  LET suffix_parts == Split(suffix, ".")
                  IN  /\ Len(domain_parts) >= Len(suffix_parts)
                      /\ EndsWithParts(domain_parts, suffix_parts)}

(***************************************************************************)
(* Header and serializers                                                  *)
(***************************************************************************)

AUTHOR_LINE == <<"#", " ", "A", "U", "T", "H", "O", "R", ":", " ", "K", "u", "G", "o", "u", "G", "o">>
REPO_LINE == <<"#", " ", "R", "E", "P", "O", ":", " ", "h", "t", "t", "p", "s", ":", "/", "/", "g", "i", "t", "h", "u", "b", ".", "c", "o", "m", "/", "K", "u", "G", "o", "u", "G", "o", "/", "R", "u", "l", "e", "s">>
UPDATED_MARK == <<"#", " ", "U", "P", "D", "A", "T", "E", "D", ":", " ">>
TOTAL_MARK == <<"#", " ", "T", "O", "T", "A", "L", ":", " ">>

\* stats.get(rule_type, 0)
StatsGet(stats, rule_type) == IF rule_type \in DOMAIN stats THEN stats[rule_type] ELSE 0

\* sum(stats.values())
RECURSIVE SumStats(_, _)
SumStats(stats, K) ==
  IF K = {} THEN 0
  ELSE LET k == CHOOSE x \in K : TRUE IN stats[k] + SumStats(stats, K \ {k})

\* The count lines of _generate_header for TYPE_ORDER[i..]: "# KIND: count" for
\* each kind whose count is positive.
RECURSIVE CountLines(_, _)
CountLines(stats, i) ==
  IF i > Len(TYPE_ORDER) THEN << >>
  ELSE LET rule_type == TYPE_ORDER[i]
           count     == StatsGet(stats, rule_type)
       IN  (IF count > 0
            THEN << <<"#", " ">> \o KindText[rule_type] \o <<":", " ">> \o Dec(count) >>
            ELSE << >>)
           \o CountLines(stats, i + 1)

\* total_rules of _generate_header
RECURSIVE TotalRules(_, _)
TotalRules(stats, i) ==
  IF i > Len(TYPE_ORDER) THEN 0
  ELSE StatsGet(stats, TYPE_ORDER[i]) + TotalRules(stats, i + 1)

\* _generate_header without the "" that ends header_lines: no newline after TOTAL.
_generate_header_no_newline(name, stats, now_utc) ==
  JoinLines(<< NAME_MARK \o <<" ">> \o name,
               AUTHOR_LINE,
               REPO_LINE,
               UPDATED_MARK \o now_utc >>
            \o CountLines(stats, 1)
            \o << TOTAL_MARK \o Dec(TotalRules(stats, 1)) >>)

\* _generate_header with total_rules += 1 for total_rules += count.
_generate_header_total_kinds(name, stats, now_utc) ==
  JoinLines(<< NAME_MARK \o <<" ">> \o name,
               AUTHOR_LINE,
               REPO_LINE,
               UPDATED_MARK \o now_utc >>
            \o CountLines(stats, 1)
            \o << TOTAL_MARK \o Dec(Len(CountLines(stats, 1))), << >> >>)

\* RuleProcessor._generate_header; now_utc is the formatted time of the call.
_generate_header(name, stats, now_utc) ==
  JoinLines(<< NAME_MARK \o <<" ">> \o name,
               AUTHOR_LINE,
               REPO_LINE,
               UPDATED_MARK \o now_utc >>
            \o CountLines(stats, 1)
            \o << TOTAL_MARK \o Dec(TotalRules(stats, 1)), << >> >>)

\* The lines "KIND,value\n" of one kind.
RECURSIVE ValueLines(_, _)
ValueLines(rule_type, values) ==
  IF values = << >> THEN << >>
  ELSE KindText[rule_type] \o <<",">> \o Head(values) \o <<"\n">>
       \o ValueLines(rule_type, Tail(values))

\* The rule lines written by _write_list_file for TYPE_ORDER[i..].
RECURSIVE RuleText(_, _)
RuleText(sorted_rules, i) ==
  IF i > Len(TYPE_ORDER) THEN << >>
  ELSE (IF TYPE_ORDER[i] \in DOMAIN sorted_rules
        THEN ValueLines(TYPE_ORDER[i], sorted_rules[TYPE_ORDER[i]])
        ELSE << >>)
       \o RuleText(sorted_rules, i + 1)

\* What RuleProcessor._write_list_file writes.
_write_list_file(header, sorted_rules) == header \o RuleText(sorted_rules, 1)

\* The loop of _write_json_file over JSON_MAP.items(), from TYPE_ORDER[i] on.
\* rule_entry["ip_cidr"], once assigned for IP-CIDR, is the list object
\* sorted_rules["IP-CIDR"] itself, so extending it extends that list too.
RECURSIVE JsonLoop(_, _)
JsonLoop(acc, i) ==
  IF i > Len(TYPE_ORDER) THEN acc
  ELSE LET rule_type == TYPE_ORDER[i]
           json_key  == JSON_MAP[rule_type]
           entry     == acc.rule_entry
           rules     == acc.sorted_rules
       IN  IF rule_type \notin DOMAIN rules THEN JsonLoop(acc, i + 1)
           ELSE IF json_key = "ip_cidr" /\ rule_type = "IP-CIDR6" THEN
             IF "ip_cidr" \notin DOMAIN entry
             THEN JsonLoop([acc EXCEPT !.rule_entry = entry @@ ("ip_cidr" :> rules[rule_type])],
                           i + 1)
             ELSE JsonLoop([rule_entry   |-> [entry EXCEPT !["ip_cidr"] = @ \o rules[rule_type]],
                            sorted_rules |-> [rules EXCEPT !["IP-CIDR"] = @ \o rules[rule_type]]],
                           i + 1)
           ELSE JsonLoop([acc EXCEPT !.rule_entry = entry @@ (json_key :> rules[rule_type])],
                         i + 1)

\* The empty dict.
EmptyDict == [x \in {} |-> << >>]

\* RuleProcessor._write_json_file up to the write: the rule_entry built, and
\* sorted_rules as the loop leaves it.
_write_json_file(sorted_rules) ==
  JsonLoop([rule_entry |-> EmptyDict, sorted_rules |-> sorted_rules], 1)

JSON_VERSION == 3

\* json_data of _write_json_file
JsonData(rule_entry) == [version |-> JSON_VERSION, rules |-> <<rule_entry>>]

(***************************************************************************)
(* The batch run of process_all_files over one file, rules/x.list          *)
(***************************************************************************)

\* At most MaxLines lines in the file that is read.
MaxLines == 3
\* input_file.stem, input_file.name
FILE_STEM == <<"x">>
FILE_NAME == FILE_STEM \o <<".", "l", "i", "s", "t">>

\* datetime.now(timezone.utc).strftime('%Y-%m-%d %H:%M:%S UTC') at the time of the call.
NOW_UTC ==
  <<"2", "0", "2", "6", "-", "1", "0", "-", "3", "0", " ", "0", "7", ":", "5", "5", ":", "5", "1", " ", "U", "T", "C">>

\* Lines about domain rules, a metadata header and a comment:
\*   '# NAME: x'
\*   '# c'
\*   'DOMAIN-SUFFIX,b.co'
\*   'domain-suffix, A.B.CO'
\*   'DOMAIN,a.b.co'
\*   'DOMAIN,b.co # x'
\*   'ab.co'
\*   'DOMAIN-KEYWORD,b.co'
DomainLines ==
  { <<"#", " ", "N", "A", "M", "E", ":", " ", "x">>,
    <<"#", " ", "c">>,
    <<"D", "O", "M", "A", "I", "N", "-", "S", "U", "F", "F", "I", "X", ",", "b", ".", "c", "o">>,
    <<"d", "o", "m", "a", "i", "n", "-", "s", "u", "f", "f", "i", "x", ",", " ", "A", ".", "B", ".", "C", "O">>,
    <<"D", "O", "M", "A", "I", "N", ",", "a", ".", "b", ".", "c", "o">>,
    <<"D", "O", "M", "A", "I", "N", ",", "b", ".", "c", "o", " ", "#", " ", "x">>,
    <<"a", "b", ".", "c", "o">>,
    <<"D", "O", "M", "A", "I", "N", "-", "K", "E", "Y", "W", "O", "R", "D", ",", "b", ".", "c", "o">> }

\* Lines about IP rules, a comment and a blank line:
\*   'IP-CIDR,9.9.9.9'
\*   '10.0.0.0/8'
\*   'ip-cidr 1::'
\*   '::1'
\*   'IP-CIDR6,9.9.9.9'
\*   'IP-CIDR,1.2.3.4/33'
\*   '# c'
\*   ''
IpLines ==
  { <<"I", "P", "-", "C", "I", "D", "R", ",", "9", ".", "9", ".", "9", ".", "9">>,
    <<"1", "0", ".", "0", ".", "0", ".", "0", "/", "8">>,
    <<"i", "p", "-", "c", "i", "d", "r", " ", "1", ":", ":">>,
    <<":", ":", "1">>,
    <<"I", "P", "-", "C", "I", "D", "R", "6", ",", "9", ".", "9", ".", "9", ".", "9">>,
    <<"I", "P", "-", "C", "I", "D", "R", ",", "1", ".", "2", ".", "3", ".", "4", "/", "3", "3">>,
    <<"#", " ", "c">>,
    <<>> }

\* The files of at most MaxLines lines of a pool, each line ended by "\n".
RECURSIVE FileText(_)
FileText(ls) == IF ls = << >> THEN << >> ELSE Head(ls) \o <<"\n">> \o FileText(Tail(ls))

Files(Pool) == {FileText(ls) : ls \in UNION {[1..n -> Pool] : n \in 0..MaxLines}}

VARIABLES
  list_file,        \* the text of rules/x.list
  backup_file,      \* rules/x.list.bak: << >> while absent, else <<its text>>
  json_file,        \* json/x.json: << >> while absent, else <<[complete, json_data]>>
  pc,               \* the position of process_all_files; "raised" once an exception left it
  lines,            \* content.splitlines() in _process_single_file
  i,                \* the line the loop of _process_single_file is at
  rules_data,       \* kind -> set of values
  invalid_lines,
  original_counts,
  sorted_rules,     \* kind -> sorted list of values
  stats,            \* kind -> count
  list_success,
  json_success,
  results           \* results of process_all_files

vars == << list_file, backup_file, json_file, pc, lines, i, rules_data,
           invalid_lines, original_counts, sorted_rules, stats, list_success,
           json_success, results >>

files  == << list_file, backup_file, json_file >>
locals == << lines, i, rules_data, invalid_lines, original_counts, sorted_rules, stats >>

\* results as process_all_files creates it (lines 255-260)
NewResults == [success |-> TRUE, processed |-> << >>, failed |-> << >>, total_rules |-> 0]

InitFrom(Pool) ==
  /\ list_file \in Files(Pool)
  /\ backup_file = << >>
  /\ json_file = << >>
  /\ pc = "start"
  /\ lines = << >>
  /\ i = 1
  /\ rules_data = EmptyDict
  /\ invalid_lines = 0
  /\ original_counts = EmptyDict
  /\ sorted_rules = EmptyDict
  /\ stats = EmptyDict
  /\ list_success = FALSE
  /\ json_success = FALSE
  /\ results = NewResults

\* _backup_original: the backup is written once.
_backup_original(text, backup) == IF backup = << >> THEN <<text>> ELSE backup

\* _process_single_file, lines 191-198: the backup is there or is written whole,
\* and the file is read.
LoadContent ==
  /\ pc = "start"
  /\ backup_file' = _backup_original(list_file, backup_file)
  /\ lines' = SplitLines(_load_content(list_file))
  /\ i' = 1
  /\ rules_data' = EmptyDict
  /\ invalid_lines' = 0
  /\ pc' = IF lines' = << >> THEN "filter" ELSE "parse"
  /\ UNCHANGED << list_file, json_file, original_counts, sorted_rules, stats,
                  list_success, json_success, results >>

\* The backup is there or is written whole, and _load_content returns None
\* (the read raised), lines 48-50, 194-195, 264-266.
LoadFails ==
  /\ pc = "start"
  /\ backup_file' = _backup_original(list_file, backup_file)
  /\ results' = [results EXCEPT !.failed = Append(@, FILE_NAME)]
  /\ pc' = "done"
  /\ UNCHANGED << list_file, json_file, locals, list_success, json_success >>

\* What a failing _backup_original (lines 34-38) leaves of x.list.bak: no file
\* when exists(), the read of x.list or the open of the backup raises, else a
\* file holding a prefix of the text, the whole text when the close raises.
BackupLeft(text) == {<< >>} \cup {<<SubSeq(text, 1, n)>> : n \in 0..Len(text)}

\* _backup_original raises, line 191.  Neither _process_single_file nor the
\* loop of process_all_files (line 263) catches it: the exception leaves
\* process_all_files, which returns no results.
BackupFails ==
  /\ pc = "start"
  /\ backup_file = << >>
  /\ backup_file' \in BackupLeft(list_file)
  /\ pc' = "raised"
  /\ UNCHANGED << list_file, json_file, locals, list_success, json_success, results >>

\* rules_data[rule_type].add(value) on a defaultdict(set)
AddRule(data, rule_type, value) ==
  IF rule_type \in DOMAIN data
  THEN [data EXCEPT ![rule_type] = @ \cup {value}]
  ELSE data @@ (rule_type :> {value})

\* Line 205 without its test for "#": a comment counts as an invalid line.
CountsInvalid_comments(line) == Strip(line) # << >>

\* Whether the loop counts a line that was not parsed (line 205).
CountsInvalid(line) == Strip(line) # << >> /\ ~StartsWith(Strip(line), <<"#">>)

\* One iteration of the loop of _process_single_file, lines 200-206.
ParseLine ==
  /\ pc = "parse"
  /\ LET line   == lines[i]
         parsed == _parse_line(line)
     IN  /\ rules_data' = IF parsed # None
                          THEN AddRule(rules_data, parsed.kind, parsed.value)
                          ELSE rules_data
         /\ invalid_lines' = IF parsed = None /\ CountsInvalid(line)
                             THEN invalid_lines + 1
                             ELSE invalid_lines
  /\ i' = i + 1
  /\ pc' = IF i = Len(lines) THEN "filter" ELSE "parse"
  /\ UNCHANGED << files, lines, original_counts, sorted_rules, stats,
                  list_success, json_success, results >>

\* _process_single_file, lines 213-218, on rules_data
FilteredSuffixes(data) ==
  IF "DOMAIN-SUFFIX" \in DOMAIN data
  THEN [data EXCEPT !["DOMAIN-SUFFIX"] = _filter_redundant_suffixes(data["DOMAIN-SUFFIX"])]
  ELSE data

\* _process_single_file, lines 220-225, on rules_data
DedupedDomains(data) ==
  IF "DOMAIN" \in DOMAIN data /\ "DOMAIN-SUFFIX" \in DOMAIN data
  THEN [data EXCEPT !["DOMAIN"] = _deduplicate_domains(data["DOMAIN"], data["DOMAIN-SUFFIX"])]
  ELSE data

\* _process_single_file, lines 211-218
FilterSuffixes ==
  /\ pc = "filter"
  /\ original_counts' = [k \in DOMAIN rules_data |-> Cardinality(rules_data[k])]
  /\ rules_data' = FilteredSuffixes(rules_data)
  /\ pc' = "dedup"
  /\ UNCHANGED << files, lines, i, invalid_lines, sorted_rules, stats,
                  list_success, json_success, results >>

\* _process_single_file, lines 220-225
DeduplicateDomains ==
  /\ pc = "dedup"
  /\ rules_data' = DedupedDomains(rules_data)
  /\ pc' = "sort"
  /\ UNCHANGED << files, lines, i, invalid_lines, original_counts, sorted_rules,
                  stats, list_success, json_success, results >>

\* sorted_rules of _process_single_file, lines 227-234
SortedRules(data) ==
  [k \in {t \in DOMAIN data : data[t] # {}} |-> Sorted(data[k])]

\* stats of _process_single_file, lines 228-234
Stats(data) ==
  [k \in {t \in DOMAIN data : data[t] # {}} |-> Len(Sorted(data[k]))]

\* The loop of _process_single_file, lines 200-206, over all the lines: rules_data.
RECURSIVE ParseLoop(_, _)
ParseLoop(ls, data) ==
  IF ls = << >> THEN data
  ELSE LET parsed == _parse_line(Head(ls))
       IN  ParseLoop(Tail(ls),
                     IF parsed # None THEN AddRule(data, parsed.kind, parsed.value) ELSE data)

\* result['sorted_rules'] of _process_single_file for a file of the given text.
_process_single_file(text) ==
  SortedRules(DedupedDomains(FilteredSuffixes(
    ParseLoop(SplitLines(_load_content(text)), EmptyDict))))

\* _process_single_file, lines 227-242: the result is returned.
SortRules ==
  /\ pc = "sort"
  /\ sorted_rules' = SortedRules(rules_data)
  /\ stats' = Stats(rules_data)
  /\ pc' = "returned"
  /\ UNCHANGED << files, lines, i, rules_data, invalid_lines, original_counts,
                  list_success, json_success, results >>

\* process_all_files, lines 273-276: a file without rules is reported as failed.
RejectEmpty ==
  /\ pc = "returned"
  /\ DOMAIN sorted_rules = {}
  /\ results' = [results EXCEPT !.failed = Append(@, FILE_NAME)]
  /\ pc' = "done"
  /\ UNCHANGED << files, locals, list_success, json_success >>

\* What _write_list_file leaves in the file when it returns False after
\* open("w") truncated it (lines 150-155).  The writes are buffered, so the
\* error of a failing write comes at a flush or at the close that ends the
\* with block, and the file holds any prefix of the text: nothing, a part cut
\* anywhere (inside the header, at or inside a rule line), or the whole text
\* when the close raises after the last flush.
PartialWrites(header, rules) ==
  LET text == _write_list_file(header, rules)
  IN  {SubSeq(text, 1, n) : n \in 0..Len(text)}

\* process_all_files, lines 278-283: the header and _write_list_file, which
\* returns False when open() or a write raises.
WriteList ==
  /\ pc = "returned"
  /\ DOMAIN sorted_rules # {}
  /\ LET header == _generate_header(Title(FILE_STEM), stats, NOW_UTC)
     IN  \/ /\ list_file' = _write_list_file(header, sorted_rules)
            /\ list_success' = TRUE
         \/ /\ list_file' = list_file
            /\ list_success' = FALSE
         \/ /\ list_file' \in PartialWrites(header, sorted_rules)
            /\ list_success' = FALSE
  /\ pc' = "write_json"
  /\ UNCHANGED << backup_file, json_file, locals, json_success, results >>

\* process_all_files, line 284: _write_json_file, which returns True without
\* writing for an empty rule_entry.  It returns False (lines 186-188) when
\* open() raises, leaving the file as it was; when json.dump or a write
\* raises, leaving a file that is not the whole document; and when the flush
\* or close that ends the with block raises after the last write went through,
\* leaving the whole new document.
WriteJson ==
  /\ pc = "write_json"
  /\ LET built == _write_json_file(sorted_rules)
     IN  /\ sorted_rules' = built.sorted_rules
         /\ IF DOMAIN built.rule_entry = {}
            THEN json_file' = json_file /\ json_success' = TRUE
            ELSE \/ /\ json_file' = <<[complete |-> TRUE, json_data |-> JsonData(built.rule_entry)]>>
                    /\ json_success' = TRUE
                 \/ /\ json_file' = json_file
                    /\ json_success' = FALSE
                 \/ /\ json_file' = <<[complete |-> FALSE, json_data |-> JsonData(EmptyDict)]>>
                    /\ json_success' = FALSE
                 \/ /\ json_file' = <<[complete |-> TRUE, json_data |-> JsonData(built.rule_entry)]>>
                    /\ json_success' = FALSE
  /\ pc' = "report"
  /\ UNCHANGED << list_file, backup_file, lines, i, rules_data, invalid_lines,
                  original_counts, stats, list_success, results >>

\* process_all_files, lines 286-302
Report ==
  /\ pc = "report"
  /\ results' =
       IF list_success /\ json_success
       THEN LET total_rules == SumStats(stats, DOMAIN stats)
            IN  [results EXCEPT
                   !.total_rules = @ + total_rules,
                   !.processed = Append(@, [name    |-> FILE_STEM,
                                            rules   |-> total_rules,
                                            invalid |-> invalid_lines,
                                            stats   |-> stats])]
       ELSE [results EXCEPT !.failed = Append(@, FILE_STEM)]
  /\ pc' = "done"
  /\ UNCHANGED << files, locals, list_success, json_success >>

Next ==
  \/ LoadContent
  \/ LoadFails
  \/ BackupFails
  \/ ParseLine
  \/ FilterSuffixes
  \/ DeduplicateDomains
  \/ SortRules
  \/ RejectEmpty
  \/ WriteList
  \/ WriteJson
  \/ Report

InitDomain == InitFrom(DomainLines)
InitIp == InitFrom(IpLines)

\* The runs over files of domain rules, and over files of IP rules.
SpecDomain == InitDomain /\ [][Next]_vars
SpecIp == InitIp /\ [][Next]_vars

\* The runs over the files of either pool.
Spec == (InitDomain \/ InitIp) /\ [][Next]_vars

(***************************************************************************)
(* Vocabulary of the properties                                            *)
(***************************************************************************)

Labels(v) == Split(v, ".")

\* The labels of a end with all the labels of b: a is b or a subdomain of b.
LabelSuffix(a, b) ==
  LET la == Labels(a)
      lb == Labels(b)
  IN  /\ Len(la) >= Len(lb)
      /\ \A k \in 1..Len(lb) : la[Len(la) - Len(lb) + k] = lb[k]

\* a is a strict subdomain of b.
StrictSubdomain(a, b) == LabelSuffix(a, b) /\ Len(Labels(a)) > Len(Labels(b))

\* The values of a kind in the sorted_rules that _process_single_file returned.
Returned(k) == IF k \in DOMAIN sorted_rules THEN Range(sorted_rules[k]) ELSE {}

\* The final Rule Set: the kinds that kept a value, each with its set of values.
FinalRuleSet == [k \in {t \in DOMAIN rules_data : rules_data[t] # {}} |-> rules_data[k]]

\* The lines read that are neither blank nor a comment.
IsSkipLine(line) == Strip(line) = << >> \/ Strip(line)[1] = "#"

\* The (kind, value) pairs of the lines read so far, and of all the lines.
PairsUpTo(n) == {_parse_line(lines[j]) : j \in 1..n} \ {None}
ParsedPairs == PairsUpTo(Len(lines))

\* The pairs a kind -> set mapping holds.
PairsOf(data) == UNION {{[kind |-> k, value |-> v] : v \in data[k]} : k \in DOMAIN data}

\* The lines of a text that do not start with "#": the rule lines of an artifact.
RuleLinesOf(text) == SelectSeq(SplitLines(text), LAMBDA l : l = << >> \/ l[1] # "#")

\* The lines of a text that start with a given text.
LinesStarting(text, prefix) == SelectSeq(SplitLines(text), LAMBDA l : StartsWith(l, prefix))

\* The content of the .list file before the run: the backup taken first, or
\* the file itself when the run ended before any backup.
OriginalContent == IF backup_file = << >> THEN list_file ELSE backup_file[1]

\* A sequence of texts in ascending order, equal neighbours allowed.
IsSortedSeq(q) == \A a \in 1..Len(q) : \A b \in (a + 1)..Len(q) : ~StrLess(q[b], q[a])

V_b_co == <<"b", ".", "c", "o">>
V_ab_co == <<"a", "b", ".", "c", "o">>
V_a_b_co == <<"a", ".", "b", ".", "c", "o">>

(***************************************************************************)
(* C1.  In the Rule Set that _process_single_file returns, no DOMAIN value  *)
(* has labels that end with all the labels of a surviving DOMAIN-SUFFIX     *)
(* value, and no surviving DOMAIN-SUFFIX value is a strict subdomain of     *)
(* another surviving DOMAIN-SUFFIX value.                                   *)
(***************************************************************************)
C1_DedupInvariant ==
  pc = "returned" =>
    /\ \A d \in Returned("DOMAIN") : \A s \in Returned("DOMAIN-SUFFIX") : ~LabelSuffix(d, s)
    /\ \A s1 \in Returned("DOMAIN-SUFFIX") : \A s2 \in Returned("DOMAIN-SUFFIX") :
         ~StrictSubdomain(s2, s1)

\* A run that removed a DOMAIN-SUFFIX and a DOMAIN and returned both kinds.
C1_Witness ==
  /\ pc = "returned"
  /\ Returned("DOMAIN") # {}
  /\ Returned("DOMAIN-SUFFIX") # {}
  /\ [kind |-> "DOMAIN-SUFFIX", value |-> V_a_b_co] \in ParsedPairs \ PairsOf(FinalRuleSet)

(***************************************************************************)
(* C2.  The filter removes a value only for label-boundary subsumption:     *)
(* every value parsed from the file and absent from the returned Rule Set   *)
(* is a DOMAIN-SUFFIX that is a strict subdomain of a surviving             *)
(* DOMAIN-SUFFIX, or a DOMAIN whose labels end with those of a surviving    *)
(* DOMAIN-SUFFIX; so ab.co is never removed for the suffix b.co, and no     *)
(* DOMAIN-KEYWORD, IP-CIDR or IP-CIDR6 value is removed.                    *)
(***************************************************************************)
C2_OnlySubsumedRemoved ==
  pc = "returned" =>
    \A p \in ParsedPairs :
       \/ p.value \in Returned(p.kind)
       \/ /\ p.kind = "DOMAIN-SUFFIX"
          /\ \E s \in Returned("DOMAIN-SUFFIX") : StrictSubdomain(p.value, s)
       \/ /\ p.kind = "DOMAIN"
          /\ \E s \in Returned("DOMAIN-SUFFIX") : LabelSuffix(p.value, s)

\* DOMAIN ab.co is returned beside DOMAIN-SUFFIX b.co, and a DOMAIN was removed.
C2_Witness ==
  /\ pc = "returned"
  /\ V_ab_co \in Returned("DOMAIN")
  /\ V_b_co \in Returned("DOMAIN-SUFFIX")
  /\ \E p \in ParsedPairs : p.kind = "DOMAIN" /\ p.value \notin Returned("DOMAIN")

(***************************************************************************)
(* C3.  Idempotence: the list file that _write_list_file has written, fed   *)
(* back through _load_content, _parse_line and the filter, gives the        *)
(* sorted value lists it was written from, and so the same KIND,value       *)
(* lines when it is written again.                                          *)
(***************************************************************************)
C3_Idempotent ==
  (pc = "write_json" /\ list_success) =>
    /\ _process_single_file(list_file) = sorted_rules
    /\ RuleText(_process_single_file(list_file), 1) = RuleText(sorted_rules, 1)

\* A list file written with rules of two kinds or more, whose rule lines are
\* not those of the file that was read.
C3_Witness ==
  /\ pc = "write_json"
  /\ list_success
  /\ Cardinality(DOMAIN sorted_rules) >= 2
  /\ RuleLinesOf(backup_file[1]) # RuleLinesOf(list_file)

(***************************************************************************)
(* C4.  JSON round trip: the rule object written determines the final Rule  *)
(* Set; read back, with the values of ip_cidr split into IP-CIDR and        *)
(* IP-CIDR6 by IPV4_REGEX and IPV6_REGEX, it is the final Rule Set.         *)
(***************************************************************************)
\* The kind -> set mapping read back from a rule object.
JsonToRuleSet(rule_entry) ==
  LET Field(key) == IF key \in DOMAIN rule_entry THEN Range(rule_entry[key]) ELSE {}
      back == [k \in Kinds |->
                 CASE k = "IP-CIDR"  -> {v \in Field("ip_cidr") : IPV4_REGEX(v)}
                   [] k = "IP-CIDR6" -> {v \in Field("ip_cidr") : IPV6_REGEX(v)}
                   [] OTHER          -> Field(JSON_MAP[k])]
  IN  [k \in {t \in Kinds : back[t] # {}} |-> back[k]]

\* The JSON file holds a whole document that _write_json_file has written,
\* whether it returned True or the close raised after the last write.
JsonWritten == pc = "report" /\ json_file # << >> /\ json_file[1].complete

C4_JsonRoundTrip ==
  JsonWritten => JsonToRuleSet(json_file[1].json_data.rules[1]) = FinalRuleSet

(***************************************************************************)
(* C5.  A file whose Rule Set is empty is not an error: process_all_files   *)
(* does not report it as failed, and goes on to write both artifacts.       *)
(***************************************************************************)
C5_EmptyNotFailed ==
  [][(pc = "returned" /\ DOMAIN sorted_rules = {})
       => (results'.failed = results.failed /\ pc' = "write_json")]_vars

(***************************************************************************)
(* C6.  Header stripping never removes a rule line: every line of the file  *)
(* that is neither blank nor a comment is among the lines handed to         *)
(* _parse_line, wherever the "# NAME:" block is.                            *)
(***************************************************************************)
C6_HeaderStripKeepsRules ==
  pc = "parse" =>
    \A l \in Range(SplitLines(list_file)) : IsSkipLine(l) \/ l \in Range(lines)

(***************************************************************************)
(* C7.  The rule object written maps each kind of the final Rule Set to     *)
(* its values under the field names of JSON_MAP, IP-CIDR and IP-CIDR6       *)
(* merged into ip_cidr; every array is sorted and none is empty.            *)
(***************************************************************************)
C7_JsonGroupedSorted ==
  JsonWritten =>
    LET rule_entry == json_file[1].json_data.rules[1]
    IN  /\ DOMAIN rule_entry = {JSON_MAP[k] : k \in DOMAIN FinalRuleSet}
        /\ \A key \in DOMAIN rule_entry :
             /\ Range(rule_entry[key]) =
                  UNION {FinalRuleSet[k] : k \in {t \in DOMAIN FinalRuleSet : JSON_MAP[t] = key}}
             /\ rule_entry[key] # << >>
             /\ IsSortedSeq(rule_entry[key])

(***************************************************************************)
(* C8.  Count consistency: stats holds, for each kind of the final Rule     *)
(* Set, the number of its values; the header written has one count line     *)
(* for each such kind and none for another kind, and its TOTAL is the sum   *)
(* of the counts and the number of KIND,value lines written.                *)
(***************************************************************************)
CountPrefix(k) == <<"#", " ">> \o KindText[k] \o <<":", " ">>

C8_CountConsistency ==
  (pc = "write_json" /\ list_success) =>
    LET total == SumStats(stats, DOMAIN stats)
    IN  /\ DOMAIN stats = DOMAIN FinalRuleSet
        /\ \A k \in DOMAIN stats : stats[k] = Cardinality(FinalRuleSet[k])
        /\ \A k \in Kinds :
             LinesStarting(list_file, CountPrefix(k)) =
               IF k \in DOMAIN stats THEN << CountPrefix(k) \o Dec(stats[k]) >> ELSE << >>
        /\ LinesStarting(list_file, TOTAL_MARK) = << TOTAL_MARK \o Dec(total) >>
        /\ Len(RuleLinesOf(list_file)) = total

\* A list file written for several kinds after the filter removed a value.
C8_Witness ==
  /\ pc = "write_json"
  /\ list_success
  /\ Cardinality(DOMAIN stats) >= 2
  /\ \E k \in DOMAIN stats : original_counts[k] > stats[k]

(***************************************************************************)
(* C9.  Invalid-line accounting: of the lines the loop has passed, each     *)
(* that is neither blank nor a comment either gave its (kind, value) pair   *)
(* to the Rule Set or was counted in invalid_lines, never both and never    *)
(* neither; blank and comment lines did neither; and the artifacts hold     *)
(* only values of lines that gave a pair.                                   *)
(***************************************************************************)
C9_InvalidLineAccounting ==
  LET Passed  == 1..(i - 1)
      Rules   == {j \in Passed : _parse_line(lines[j]) # None}
      Skipped == {j \in Passed : IsSkipLine(lines[j])}
      pairs   == ParsedPairs
      written == {KindText[p.kind] \o <<",">> \o p.value : p \in pairs}
      fields  == {<<JSON_MAP[p.kind], p.value>> : p \in pairs}
  IN  /\ pc \in {"parse", "filter"} =>
           /\ Rules \cap Skipped = {}
           /\ invalid_lines = Cardinality(Passed \ (Rules \cup Skipped))
           /\ PairsOf(rules_data) = PairsUpTo(i - 1)
      /\ (pc = "write_json" /\ list_success) =>
           \A l \in Range(RuleLinesOf(list_file)) : l \in written
      /\ JsonWritten =>
           LET rule_entry == json_file[1].json_data.rules[1]
           IN  \A key \in DOMAIN rule_entry :
                  \A v \in Range(rule_entry[key]) : <<key, v>> \in fields

\* The loop has passed an invalid line, a comment and a rule line.
C9_Witness ==
  /\ pc = "filter"
  /\ invalid_lines >= 1
  /\ DOMAIN rules_data # {}
  /\ \E j \in 1..Len(lines) : IsSkipLine(lines[j])

(***************************************************************************)
(* C10.  The serializers only read sorted_rules: after _write_list_file     *)
(* and _write_json_file it is what _process_single_file returned.           *)
(***************************************************************************)
C10_SerializersOnlyRead ==
  pc = "report" => sorted_rules = SortedRules(rules_data)

(***************************************************************************)
(* C11.  The two artifacts stay synchronized: when process_all_files has    *)
(* reported the file, either the file is in 'processed' and both the list   *)
(* file and the JSON file were written from the Rule Set that               *)
(* _process_single_file returned, or the file is in 'failed' and its .list  *)
(* file still has the content it had before the run.                        *)
(***************************************************************************)
\* Both artifacts hold what the serializers give for the returned Rule Set.
BothWrittenFrom(rules) ==
  /\ list_file = _write_list_file(_generate_header(Title(FILE_STEM), Stats(rules_data), NOW_UTC), rules)
  /\ json_file = <<[complete  |-> TRUE,
                    json_data |-> JsonData(_write_json_file(rules).rule_entry)]>>

C11_ArtifactsSynchronized ==
  pc = "done" =>
    \/ /\ Len(results.processed) = 1
       /\ results.failed = << >>
       /\ BothWrittenFrom(SortedRules(rules_data))
    \/ /\ results.processed = << >>
       /\ Len(results.failed) = 1
       /\ list_file = OriginalContent

====
